---- MODULE Spec2Model ----
(***************************************************************************)
(* The temporal engine of lif (reminders, countdowns, alarms, the          *)
(* evaluation tick), modelled from the Go source of the bubbletea program. *)
(*                                                                         *)
(* Time is counted in whole seconds of local wall-clock time; the zero     *)
(* time.Time{} is the instant 0, and the program's clock never reads 0.    *)
(* A Go string is a sequence of one-character strings.                     *)
(***************************************************************************)
EXTENDS Integers, Sequences, FiniteSets, TLC

\* ------------------------------------------------------------------ bounds

\* The clock runs from StartNow to StartNow + MaxElapsed.
MaxElapsed == 3

\* The clock of the end-to-end scenario runs to StartNow + MaxElapsedE2E.
MaxElapsedE2E == 33

\* The store holds at most MaxReminders reminders.
MaxReminders == 2

\* ------------------------------------------------------- program constants

Second == 1
Minute == 60
Hour == 3600
DayLen == 24 * Hour

\* time.Time{}: the unset TargetTime / LastCompleted.
ZeroTime == 0

\* The instant the program is started at: day 1, 13:59:58 local time.
StartNow == 136798

\* ----------------------------------------------------------------- strings

Digits == <<"0", "1", "2", "3", "4", "5", "6", "7", "8", "9">>

IsDigit(c) == \E i \in 1..10 : Digits[i] = c

DigitVal(c) == (CHOOSE i \in 1..10 : Digits[i] = c) - 1

\* strings.HasSuffix
HasSuffix(s, suf) ==
  /\ Len(s) >= Len(suf)
  /\ SubSeq(s, Len(s) - Len(suf) + 1, Len(s)) = suf

\* strings.TrimSuffix
TrimSuffix(s, suf) ==
  IF HasSuffix(s, suf) THEN SubSeq(s, 1, Len(s) - Len(suf)) ELSE s

RECURSIVE DecimalValue(_)
DecimalValue(s) ==
  IF s = <<>> THEN 0
  ELSE 10 * DecimalValue(SubSeq(s, 1, Len(s) - 1)) + DigitVal(s[Len(s)])

\* strconv.Atoi: an optional sign, then one or more decimal digits.
AtoiResult(ok, body, neg) ==
  [ok |-> ok,
   val |-> IF ~ok THEN 0
           ELSE IF neg THEN 0 - DecimalValue(body) ELSE DecimalValue(body)]

AtoiBody(body, neg) ==
  AtoiResult(Len(body) > 0 /\ \A i \in 1..Len(body) : IsDigit(body[i]), body, neg)

AtoiSigned(s, signed) ==
  AtoiBody(IF signed THEN Tail(s) ELSE s, signed /\ s[1] = "-")

Atoi(s) == AtoiSigned(s, Len(s) > 0 /\ s[1] \in {"+", "-"})

\* ----------------------------------------------------------- TimeSpecParser

NotParsed == [ok |-> FALSE, t |-> ZeroTime]

\* CountdownRule that adds the number as seconds, whatever the unit.
CountdownRule_secondsOnly(matches, a, unit, t, otherwise) ==
  IF matches /\ a.ok THEN [ok |-> TRUE, t |-> t + a.val * Second] ELSE otherwise

\* One suffix rule of parseCountdown: when the suffix matches and the text
\* before it is a number a, the target is t + a * unit; otherwise the next
\* rule.
CountdownRule(matches, a, unit, t, otherwise) ==
  IF matches /\ a.ok THEN [ok |-> TRUE, t |-> t + a.val * unit] ELSE otherwise

\* parseCountdown: days, weeks, minutes, hours, seconds, in the order of
\* the source; a failed Atoi falls through to the next suffix rule.
parseCountdown(str, t) ==
  CountdownRule(HasSuffix(str, <<"d">>),
                Atoi(TrimSuffix(str, <<"d">>)), 24 * Hour, t,
  CountdownRule(HasSuffix(str, <<"w">>),
                Atoi(TrimSuffix(str, <<"w">>)), 7 * 24 * Hour, t,
  CountdownRule(HasSuffix(str, <<"m">>) \/ HasSuffix(str, <<"m", "i", "n">>),
                Atoi(TrimSuffix(TrimSuffix(str, <<"m", "i", "n">>), <<"m">>)), Minute, t,
  CountdownRule(HasSuffix(str, <<"h">>) \/ HasSuffix(str, <<"h", "r">>),
                Atoi(TrimSuffix(TrimSuffix(str, <<"h", "r">>), <<"h">>)), Hour, t,
  CountdownRule(HasSuffix(str, <<"s">>) \/ HasSuffix(str, <<"s", "e", "c">>),
                Atoi(TrimSuffix(TrimSuffix(str, <<"s", "e", "c">>), <<"s">>)), Second, t,
  NotParsed)))))

\* time.Parse reads a number of one or two digits (fixed: exactly two).
getnum(s, fixed) ==
  IF Len(s) = 0 \/ ~IsDigit(s[1]) THEN [ok |-> FALSE, val |-> 0, rest |-> s]
  ELSE IF Len(s) < 2 \/ ~IsDigit(s[2])
    THEN IF fixed THEN [ok |-> FALSE, val |-> 0, rest |-> s]
         ELSE [ok |-> TRUE, val |-> DigitVal(s[1]), rest |-> Tail(s)]
  ELSE [ok |-> TRUE, val |-> 10 * DigitVal(s[1]) + DigitVal(s[2]),
        rest |-> SubSeq(s, 3, Len(s))]

RECURSIVE cutspace(_)
cutspace(s) == IF Len(s) > 0 /\ s[1] = " " THEN cutspace(Tail(s)) ELSE s

NoClock == [ok |-> FALSE, hour |-> 0, min |-> 0]

\* time.Parse with a 12-hour layout, after the minute: the AM/PM marker
\* must be all that is left; PM adds 12 to an hour below 12, 12 AM is 0.
Clock12Result(hour, min, mark, am, pm) ==
  IF mark = pm
    THEN [ok |-> TRUE, hour |-> IF hour < 12 THEN hour + 12 ELSE hour, min |-> min]
  ELSE IF mark = am
    THEN [ok |-> TRUE, hour |-> IF hour = 12 THEN 0 ELSE hour, min |-> min]
  ELSE NoClock

\* ... after the hour and the colon: the minute m, two digits up to 59,
\* then (space) the blanks of the layout.
Clock12Mark(hour, m, space, am, pm) ==
  IF m.ok /\ m.val <= 59 /\ (space => (Len(m.rest) = 0 \/ m.rest[1] = " "))
    THEN Clock12Result(hour, m.val, IF space THEN cutspace(m.rest) ELSE m.rest, am, pm)
  ELSE NoClock

\* ... after the hour h: one or two digits up to 12, then a colon.
Clock12Minute(h, space, am, pm) ==
  IF h.ok /\ h.val <= 12 /\ Len(h.rest) > 0 /\ h.rest[1] = ":"
    THEN Clock12Mark(h.val, getnum(Tail(h.rest), TRUE), space, am, pm)
  ELSE NoClock

\* time.Parse with a 12-hour layout: "3:04PM", "3:04 PM", "3:04pm", "3:04 pm"
\* (space: the layout has a blank before the marker; am, pm: its two markers).
ParseClock12(s, space, am, pm) == Clock12Minute(getnum(s, FALSE), space, am, pm)

Clock24Result(hour, m) ==
  IF m.ok /\ m.val <= 59 /\ m.rest = <<>>
    THEN [ok |-> TRUE, hour |-> hour, min |-> m.val]
  ELSE NoClock

Clock24Minute(h) ==
  IF h.ok /\ h.val <= 23 /\ Len(h.rest) > 0 /\ h.rest[1] = ":"
    THEN Clock24Result(h.val, getnum(Tail(h.rest), TRUE))
  ELSE NoClock

\* time.Parse with the layout "15:04".
ParseClock24(s) == Clock24Minute(getnum(s, FALSE))

FirstClock(c, otherwise) == IF c.ok THEN c ELSE otherwise

\* The first layout of formats12, then "15:04", that parses the string.
ParseClock(s) ==
  FirstClock(ParseClock12(s, FALSE, <<"A", "M">>, <<"P", "M">>),
  FirstClock(ParseClock12(s, TRUE, <<"A", "M">>, <<"P", "M">>),
  FirstClock(ParseClock12(s, FALSE, <<"a", "m">>, <<"p", "m">>),
  FirstClock(ParseClock12(s, TRUE, <<"a", "m">>, <<"p", "m">>),
  ParseClock24(s)))))

\* time.Date(now.Year(), now.Month(), now.Day(), hour, min, 0, 0, loc)
DateAt(t, hour, min) == (t - (t % DayLen)) + hour * Hour + min * Minute

\* if alarmTime.Before(now) { alarmTime = alarmTime.Add(24 * time.Hour) }
RollForward(alarmTime, t) ==
  IF alarmTime < t THEN alarmTime + 24 * Hour ELSE alarmTime

AlarmResult(c, t) ==
  IF c.ok THEN [ok |-> TRUE, t |-> RollForward(DateAt(t, c.hour, c.min), t)]
  ELSE NotParsed

\* parseAlarmTime: the clock time on now's date, a day later when it is
\* Before(now).
parseAlarmTime(str, t) == AlarmResult(ParseClock(str), t)

SpecResult(c, a) ==
  IF c.ok THEN [kind |-> "countdown", t |-> c.t]
  ELSE IF a.ok THEN [kind |-> "alarm", t |-> a.t]
  ELSE [kind |-> "none", t |-> ZeroTime]

\* The parse every caller runs: parseCountdown, else parseAlarmTime.
\* kind is "countdown", "alarm" or "none".
parseSpec(str, t) == SpecResult(parseCountdown(str, t), parseAlarmTime(str, t))

\* What every caller does with the parse: a recognised spec sets TargetTime
\* and IsCountdown, an unrecognised one leaves both.
storeParse(r, p) ==
  IF p.kind = "none" THEN r
  ELSE [r EXCEPT !.targetTime = p.t, !.isCountdown = p.kind = "countdown"]

\* --------------------------------------------------------------- text order

\* The byte values of the characters that reminder texts are made of.
CharCode(c) ==
  CASE c = " " -> 32
    [] c = "A" -> 65
    [] c = "B" -> 66
    [] c = "a" -> 97
    [] c = "b" -> 98
    [] OTHER -> 127

\* Go's < on strings: byte-wise lexicographic order.
RECURSIVE StrLess(_, _)
StrLess(x, y) ==
  IF y = <<>> THEN FALSE
  ELSE IF x = <<>> THEN TRUE
  ELSE IF Head(x) # Head(y) THEN CharCode(Head(x)) < CharCode(Head(y))
  ELSE StrLess(Tail(x), Tail(y))

ToLowerChar(c) == CASE c = "A" -> "a" [] c = "B" -> "b" [] OTHER -> c

RECURSIVE TrimSpace(_)
TrimSpace(s) ==
  IF s = <<>> THEN s
  ELSE IF Head(s) = " " THEN TrimSpace(Tail(s))
  ELSE IF s[Len(s)] = " " THEN TrimSpace(SubSeq(s, 1, Len(s) - 1))
  ELSE s

\* normalizeText: strings.ToLower(strings.TrimSpace(text))
ToLower(t) == [i \in 1..Len(t) |-> ToLowerChar(t[i])]

normalizeText(text) == ToLower(TrimSpace(text))

\* ------------------------------------------------------------------ sorting

\* statusOrder[...] of sortItems: a status missing from the map reads 0.
statusOrder(st) ==
  CASE st = "active" -> 0
    [] st = "pending" -> 1
    [] st = "completed" -> 2
    [] st = "expired" -> 3
    [] OTHER -> 0

\* The less function sortItems gives sort.Slice for []Reminder.
ReminderLess(a, b) ==
  IF a.status # b.status THEN statusOrder(a.status) < statusOrder(b.status)
  ELSE StrLess(a.reminder, b.reminder)

\* One pass of the insertion sort: element i sinks while it is less than
\* its left neighbour.
RECURSIVE SinkReminder(_, _)
SinkReminder(v, j) ==
  IF j > 1 /\ ReminderLess(v[j], v[j - 1])
    THEN SinkReminder([v EXCEPT ![j] = v[j - 1], ![j - 1] = v[j]], j - 1)
  ELSE v

RECURSIVE InsertionSortReminders(_, _)
InsertionSortReminders(v, i) ==
  IF i > Len(v) THEN v ELSE InsertionSortReminders(SinkReminder(v, i), i + 1)

\* sortItems on []Reminder: sort.Slice sorts a slice of fewer than 12
\* elements by insertion sort.
sortReminders(v) == InsertionSortReminders(v, 2)

\* The less function sortItems gives sort.Slice for []Daily.
priorityOrder(p) ==
  CASE p = "HIGH" -> 0 [] p = "MEDIUM" -> 1 [] p = "LOW" -> 2 [] OTHER -> 0

DailyLess(a, b) ==
  IF a.category # b.category
    THEN StrLess(ToLower(a.category), ToLower(b.category))
  ELSE IF priorityOrder(a.priority) # priorityOrder(b.priority)
    THEN priorityOrder(a.priority) < priorityOrder(b.priority)
  ELSE StrLess(a.task, b.task)

RECURSIVE SinkDaily(_, _)
SinkDaily(v, j) ==
  IF j > 1 /\ DailyLess(v[j], v[j - 1])
    THEN SinkDaily([v EXCEPT ![j] = v[j - 1], ![j - 1] = v[j]], j - 1)
  ELSE v

RECURSIVE InsertionSortDailies(_, _)
InsertionSortDailies(v, i) ==
  IF i > Len(v) THEN v ELSE InsertionSortDailies(SinkDaily(v, i), i + 1)

\* sortItems on []Daily.
sortDailies(v) == InsertionSortDailies(v, 2)

\* ------------------------------------------------------ DailyResetCalculator

\* getMostRecent3AM that answers the 03:00 of the day before today's.
getMostRecent3AM_dayBefore(t) == DateAt(t, 3, 0) - DayLen

\* getMostRecent3AM that always answers today's 03:00.
getMostRecent3AM_today(t) == DateAt(t, 3, 0)

\* getMostRecent3AM: today's 03:00, yesterday's when now is before it.
getMostRecent3AM(t) ==
  LET today3AM == DateAt(t, 3, 0)
  IN IF t < today3AM THEN today3AM - DayLen ELSE today3AM

\* resetDaily that also resets a task completed exactly at the boundary.
resetDaily_atBoundary(d, t) ==
  IF d.status = "DONE" /\ d.lastCompleted <= getMostRecent3AM(t)
    THEN [d EXCEPT !.status = "INCOMPLETE", !.lastCompleted = ZeroTime]
  ELSE d

\* resetDaily that clears the completion time and leaves the status.
resetDaily_keepStatus(d, t) ==
  IF d.status = "DONE" /\ d.lastCompleted < getMostRecent3AM(t)
    THEN [d EXCEPT !.lastCompleted = ZeroTime]
  ELSE d

\* The loop body of resetDailyTasks for one task.
resetDaily(d, t) ==
  IF d.status = "DONE" /\ d.lastCompleted < getMostRecent3AM(t)
    THEN [d EXCEPT !.status = "INCOMPLETE", !.lastCompleted = ZeroTime]
  ELSE d

\* resetDailyTasks: the tasks after the pass, and whether any was reset.
resetDailyTasks(ds, t) ==
  [dailies |-> [i \in 1..Len(ds) |-> resetDaily(ds[i], t)],
   resetOccurred |-> \E i \in 1..Len(ds) : resetDaily(ds[i], t) # ds[i]]

\* ------------------------------------------------------ ReminderStateMachine

\* toggleReminderStatus("start") on a paused reminder: resume, the target
\* moved to now + pausedRemaining when something remained.
resumeBranch(r, t) ==
  [r |-> [r EXCEPT !.targetTime = IF r.pausedRemaining > 0
                                    THEN t + r.pausedRemaining ELSE @,
                   !.pausedRemaining = 0,
                   !.status = "active",
                   !.notified = FALSE],
   msg |-> "resumed"]

\* toggleReminderStatus("start") on an inactive reminder: activate and
\* re-parse the stored spec.
startBranch(r, t) ==
  [r |-> storeParse([r EXCEPT !.status = "active", !.notified = FALSE],
                    parseSpec(r.spec, t)),
   msg |-> "started"]

\* startReminder that resumes without moving the target by the time paused.
startReminder_keepTarget(r, t) ==
  IF r.status = "paused"
    THEN [r |-> [r EXCEPT !.pausedRemaining = 0,
                          !.status = "active",
                          !.notified = FALSE],
          msg |-> "resumed"]
  ELSE IF r.status = "inactive" THEN startBranch(r, t)
  ELSE [r |-> r, msg |-> "already active"]

\* startReminder that starts an inactive reminder without parsing its spec.
startReminder_noParse(r, t) ==
  IF r.status = "paused" THEN resumeBranch(r, t)
  ELSE IF r.status = "inactive"
    THEN [r |-> [r EXCEPT !.status = "active", !.notified = FALSE],
          msg |-> "started"]
  ELSE [r |-> r, msg |-> "already active"]

\* startReminder that restarts the clock of an active reminder.
startReminder_restartActive(r, t) ==
  IF r.status = "paused" THEN resumeBranch(r, t)
  ELSE IF r.status \in {"inactive", "active"} THEN startBranch(r, t)
  ELSE [r |-> r, msg |-> "already active"]

\* startReminder that starts an expired reminder again.
startReminder_fromExpired(r, t) ==
  IF r.status = "paused" THEN resumeBranch(r, t)
  ELSE IF r.status \in {"inactive", "expired"} THEN startBranch(r, t)
  ELSE [r |-> r, msg |-> "already active"]

\* toggleReminderStatus("start") on reminder r at time t: the reminder
\* afterwards and the status message.
startReminder(r, t) ==
  IF r.status = "paused" THEN resumeBranch(r, t)
  ELSE IF r.status = "inactive" THEN startBranch(r, t)
  ELSE [r |-> r, msg |-> "already active"]

\* pausedRemainingAt without the floor at zero.
pausedRemainingAt_noFloor(r, t) ==
  IF r.targetTime # ZeroTime THEN r.targetTime - t ELSE r.pausedRemaining

\* time.Until(r.TargetTime), floored at zero, kept only for a set target.
pausedRemainingAt(r, t) ==
  IF r.targetTime # ZeroTime
    THEN IF r.targetTime - t < 0 THEN 0 ELSE r.targetTime - t
  ELSE r.pausedRemaining

\* pauseReminder without the check that the reminder is active.
pauseReminder_anyStatus(r, t) ==
  [r |-> [r EXCEPT !.pausedRemaining = pausedRemainingAt(r, t),
                   !.status = "paused"],
   msg |-> "paused"]

\* pauseReminder that expires a reminder whose target has already passed.
pauseReminder_expirePast(r, t) ==
  IF r.status = "active"
    THEN IF r.targetTime # ZeroTime /\ t > r.targetTime
           THEN [r |-> [r EXCEPT !.status = "expired", !.notified = TRUE],
                 msg |-> "paused"]
         ELSE [r |-> [r EXCEPT !.pausedRemaining = pausedRemainingAt(r, t),
                               !.status = "paused"],
               msg |-> "paused"]
  ELSE [r |-> r, msg |-> "not active"]

\* toggleReminderStatus("pause")
pauseReminder(r, t) ==
  IF r.status = "active"
    THEN [r |-> [r EXCEPT !.pausedRemaining = pausedRemainingAt(r, t),
                          !.status = "paused"],
          msg |-> "paused"]
  ELSE [r |-> r, msg |-> "not active"]

\* resetReminder that reactivates without parsing the spec again.
resetReminder_keepTarget(r, t) ==
  [r |-> [r EXCEPT !.status = "active", !.notified = FALSE,
                   !.pausedRemaining = 0],
   msg |-> "reset"]

\* resetReminder that leaves the notified flag as it is.
resetReminder_keepNotified(r, t) ==
  [r |-> storeParse([r EXCEPT !.status = "active", !.pausedRemaining = 0],
                    parseSpec(r.spec, t)),
   msg |-> "reset"]

\* toggleReminderStatus("reset")
resetReminder(r, t) ==
  [r |-> storeParse([r EXCEPT !.status = "active", !.notified = FALSE,
                              !.pausedRemaining = 0],
                    parseSpec(r.spec, t)),
   msg |-> "reset"]

\* isDue without its notified and status guards.
isDue_noGuard(r, t) ==
  /\ r.targetTime # ZeroTime
  /\ t > r.targetTime

\* isDue without its status guard.
isDue_anyStatus(r, t) ==
  /\ r.targetTime # ZeroTime
  /\ ~r.notified
  /\ t > r.targetTime

\* The tick-expire condition of Update(tickMsg).
isDue(r, t) ==
  /\ r.targetTime # ZeroTime
  /\ ~r.notified
  /\ r.status = "active"
  /\ t > r.targetTime

\* The loop body of Update(tickMsg) for one reminder.
expireReminder(r, t) ==
  IF isDue(r, t) THEN [r EXCEPT !.notified = TRUE, !.status = "expired"] ELSE r

\* ---------------------------------------------------------------- the model

VARIABLES
  now,          \* time.Now(): the local clock, in seconds
  activeTab,    \* model.activeTab, 1..5
  reminders,    \* model.data.Reminders
  dailies,      \* model.data.Dailies
  cursor,       \* tables[i].Cursor(), for i in 0..3
  editing,      \* model.editing
  editingTab,   \* model.editingTab
  editingRow,   \* model.editingRow, -1 for a new item
  inputs,       \* model.inputs: the text fields of the edit form, or Nil
  statusMsg,    \* model.statusMsg: which message the status line shows
  emitted,      \* the sendNotification calls of the latest Update: their messages
  panicked,     \* the program has stopped on a runtime panic
  ticksArmed,   \* the tea.Tick commands armed and not yet handled as a tickMsg
  waiting,      \* the row whose sendNotification Update(tickMsg) is waiting in, or 0
  confirmDelete, \* model.confirmDelete
  deleteTarget, \* model.deleteTarget
  dispatch,     \* whether each sendNotification of the latest tick succeeded
  sounds        \* the sound commands started with go that are still running

vars == <<now, activeTab, reminders, dailies, cursor, editing, editingTab,
          editingRow, inputs, statusMsg, emitted, panicked, ticksArmed,
          waiting, confirmDelete, deleteTarget, dispatch, sounds>>

\* Idle that lets a handler start while another Update call is in progress.
Idle_unserialized == ~panicked

\* The program is running and no Update call is in progress.
Idle == ~panicked /\ waiting = 0

\* What the user types into the form's fields.
TextInputs == {<<"B", " ">>}

SpecInputs == {<<"1", "s">>, <<"z", "z">>}

Nil == [nil |-> TRUE]

\* A reminder as a config.json written by hand or by the first version of
\* the program holds it: status "inactive", nothing notified or paused,
\* with or without a stored target_time.
FileReminders ==
  {[id |-> 1, reminder |-> <<"a">>, note |-> <<>>, spec |-> sp,
    status |-> "inactive", targetTime |-> tt, isCountdown |-> FALSE,
    notified |-> FALSE, pausedRemaining |-> 0] :
      sp \in SpecInputs, tt \in {ZeroTime, StartNow + 1}}

FileStores == {<<>>} \cup {<<r>> : r \in FileReminders}

\* loadData's loop body: a reminder without a target and with a spec is
\* parsed, and activated when the spec parses.
loadParsed(r, p) ==
  IF r.targetTime = ZeroTime /\ r.spec # <<>> /\ p.kind # "none"
    THEN [storeParse(r, p) EXCEPT !.status = "active"]
  ELSE r

loadReminder(r, t) == loadParsed(r, parseSpec(r.spec, t))

loadData(file, t) == [i \in 1..Len(file) |-> loadReminder(file[i], t)]

\* initialModel, setupTables
Init ==
  /\ now = StartNow
  /\ activeTab = 1
  /\ \E file \in FileStores : reminders = sortReminders(loadData(file, StartNow))
  /\ dailies = <<>>
  /\ cursor = [i \in 0..3 |-> 0]
  /\ editing = FALSE
  /\ editingTab = 0
  /\ editingRow = 0
  /\ inputs = Nil
  /\ statusMsg = ""
  /\ emitted = <<>>
  /\ panicked = FALSE
  /\ ticksArmed = 1
  /\ waiting = 0
  /\ confirmDelete = FALSE
  /\ deleteTarget = <<>>
  /\ dispatch = <<>>
  /\ sounds = 0

\* Time passes: the clock reads one second more, up to StartNow + limit.
AdvanceTo(limit) ==
  /\ ~panicked
  /\ now < StartNow + limit
  /\ now' = now + 1
  /\ UNCHANGED <<activeTab, reminders, dailies, cursor, editing, editingTab,
                 editingRow, inputs, statusMsg, emitted, panicked>>
  /\ UNCHANGED <<ticksArmed, waiting, confirmDelete, deleteTarget, dispatch, sounds>>

Advance == AdvanceTo(MaxElapsed)

\* The sendNotification calls of a tick at time t over reminders rs: one per
\* due reminder, in slice order, with the reminder's text as the message.
textsOf(rs) == [i \in 1..Len(rs) |-> rs[i].reminder]

notifications(rs, t) == textsOf(SelectSeq(rs, LAMBDA r : isDue(r, t)))

\* Update(tickMsg) after the daily reset pass res: the pass over the
\* reminders, each due one expired and notified, then the rows rebuilt
\* (which sorts).
TickAfterReset(res) ==
  /\ dailies' = IF res.resetOccurred THEN sortDailies(res.dailies) ELSE dailies
  /\ reminders' = sortReminders([i \in 1..Len(reminders) |->
                                   expireReminder(reminders[i], now)])
  /\ emitted' = notifications(reminders, now)
  /\ statusMsg' = IF \E i \in 1..Len(reminders) : isDue(reminders[i], now)
                    THEN "reminder"
                  ELSE IF res.resetOccurred THEN "dailies reset"
                  ELSE statusMsg

\* Update(tickMsg) returning no command: the tick is not armed again.
Tick_noRearm ==
  /\ Idle
  /\ ticksArmed > 0
  /\ TickAfterReset(resetDailyTasks(dailies, now))
  /\ ticksArmed' = ticksArmed - 1
  /\ UNCHANGED <<now, activeTab, cursor, editing, editingTab, editingRow,
                 inputs, panicked>>
  /\ UNCHANGED <<waiting, confirmDelete, deleteTarget, dispatch, sounds>>

\* Update(tickMsg) with every notification command returning at once: the
\* armed tick is delivered, the daily reset and the reminders are handled,
\* and the returned tickCmd() arms the next tick.
Tick ==
  /\ Idle
  /\ ticksArmed > 0
  /\ TickAfterReset(resetDailyTasks(dailies, now))
  /\ ticksArmed' = (ticksArmed - 1) + 1
  /\ UNCHANGED <<now, activeTab, cursor, editing, editingTab, editingRow,
                 inputs, panicked>>
  /\ UNCHANGED <<waiting, confirmDelete, deleteTarget, dispatch, sounds>>

\* The tab keys the user presses: "4", the reminders tab.
TabKeys == {4}

KeyTab(k) ==
  /\ Idle
  /\ ~editing
  /\ activeTab # k
  /\ activeTab' = k
  /\ emitted' = <<>>
  /\ UNCHANGED <<now, reminders, dailies, cursor, editing, editingTab,
                 editingRow, inputs, statusMsg, panicked>>
  /\ UNCHANGED <<ticksArmed, waiting, confirmDelete, deleteTarget, dispatch, sounds>>

\* table.Model.MoveUp / MoveDown on the reminders table.
clamp(v, low, high) == IF v < low THEN low ELSE IF v > high THEN high ELSE v

KeyUp ==
  /\ Idle
  /\ ~editing
  /\ activeTab = 4
  /\ Len(reminders) > 0
  /\ cursor[2] > 0
  /\ cursor' = [cursor EXCEPT ![2] = clamp(@ - 1, 0, Len(reminders) - 1)]
  /\ emitted' = <<>>
  /\ UNCHANGED <<now, activeTab, reminders, dailies, editing, editingTab,
                 editingRow, inputs, statusMsg, panicked>>
  /\ UNCHANGED <<ticksArmed, waiting, confirmDelete, deleteTarget, dispatch, sounds>>

KeyDown ==
  /\ Idle
  /\ ~editing
  /\ activeTab = 4
  /\ Len(reminders) > 0
  /\ cursor[2] < Len(reminders) - 1
  /\ cursor' = [cursor EXCEPT ![2] = clamp(@ + 1, 0, Len(reminders) - 1)]
  /\ emitted' = <<>>
  /\ UNCHANGED <<now, activeTab, reminders, dailies, editing, editingTab,
                 editingRow, inputs, statusMsg, panicked>>
  /\ UNCHANGED <<ticksArmed, waiting, confirmDelete, deleteTarget, dispatch, sounds>>

\* toggleReminderStatus(action): the transition on the reminder under the
\* cursor, the rows rebuilt (which sorts), the message shown.
toggleReminderStatus(res) ==
  /\ reminders' = sortReminders([reminders EXCEPT ![cursor[2] + 1] = res.r])
  /\ statusMsg' = res.msg
  /\ emitted' = <<>>
  /\ UNCHANGED <<now, activeTab, dailies, cursor, editing, editingTab,
                 editingRow, inputs, panicked>>
  /\ UNCHANGED <<ticksArmed, waiting, confirmDelete, deleteTarget, dispatch, sounds>>

ToggleGuard ==
  /\ Idle
  /\ ~editing
  /\ activeTab = 4
  /\ Len(reminders) > 0
  /\ cursor[2] < Len(reminders)

\* The key "s".
KeyStart ==
  /\ ToggleGuard
  /\ toggleReminderStatus(startReminder(reminders[cursor[2] + 1], now))

\* The key "p".
KeyPause ==
  /\ ToggleGuard
  /\ toggleReminderStatus(pauseReminder(reminders[cursor[2] + 1], now))

\* The key "r".
KeyReset ==
  /\ ToggleGuard
  /\ toggleReminderStatus(resetReminder(reminders[cursor[2] + 1], now))

BlankInputs == [reminder |-> <<>>, note |-> <<>>, spec |-> <<>>]

\* The keys "a" and "n": addNew on the reminders tab.
KeyAdd ==
  /\ Idle
  /\ ~editing
  /\ activeTab = 4
  /\ Len(reminders) < MaxReminders
  /\ editing' = TRUE
  /\ editingTab' = activeTab
  /\ editingRow' = -1
  /\ inputs' = BlankInputs
  /\ emitted' = <<>>
  /\ UNCHANGED <<now, activeTab, reminders, dailies, cursor, statusMsg,
                 panicked>>
  /\ UNCHANGED <<ticksArmed, waiting, confirmDelete, deleteTarget, dispatch, sounds>>

\* The key "e": startEditing on the reminders tab. The form is filled from
\* the reminder under the cursor; without one the inputs stay as they are.
KeyEdit ==
  /\ Idle
  /\ ~editing
  /\ activeTab = 4
  /\ editing' = TRUE
  /\ editingTab' = activeTab
  /\ editingRow' = cursor[2]
  /\ inputs' = IF cursor[2] < Len(reminders)
                 THEN LET r == reminders[cursor[2] + 1]
                      IN [reminder |-> r.reminder, note |-> r.note, spec |-> r.spec]
               ELSE inputs
  /\ emitted' = <<>>
  /\ UNCHANGED <<now, activeTab, reminders, dailies, cursor, statusMsg,
                 panicked>>
  /\ UNCHANGED <<ticksArmed, waiting, confirmDelete, deleteTarget, dispatch, sounds>>

\* handleEditingKeys, "esc".
EditEsc ==
  /\ Idle
  /\ editing
  /\ editing' = FALSE
  /\ inputs' = Nil
  /\ emitted' = <<>>
  /\ UNCHANGED <<now, activeTab, reminders, dailies, cursor, editingTab,
                 editingRow, statusMsg, panicked>>
  /\ UNCHANGED <<ticksArmed, waiting, confirmDelete, deleteTarget, dispatch, sounds>>

\* newParsed that activates the reminder whether or not the spec parsed.
newParsed_alwaysActive(r, p) == [storeParse(r, p) EXCEPT !.status = "active"]

\* The new reminder r with the parse p of its spec.
newParsed(r, p) ==
  IF p.kind = "none" THEN r ELSE [storeParse(r, p) EXCEPT !.status = "active"]

\* newReminder that stores the parsed target without activating.
newReminder_notActivated(rs, in, t) ==
  storeParse([id |-> Len(rs) + 1,
              reminder |-> normalizeText(in.reminder),
              note |-> normalizeText(in.note),
              spec |-> in.spec,
              status |-> "",
              targetTime |-> ZeroTime,
              isCountdown |-> FALSE,
              notified |-> FALSE,
              pausedRemaining |-> 0],
             parseSpec(in.spec, t))

\* saveEdit, case 4, editingRow = -1: the new reminder, activated when its
\* spec parses.
newReminder(rs, in, t) ==
  newParsed([id |-> Len(rs) + 1,
             reminder |-> normalizeText(in.reminder),
             note |-> normalizeText(in.note),
             spec |-> in.spec,
             status |-> "",
             targetTime |-> ZeroTime,
             isCountdown |-> FALSE,
             notified |-> FALSE,
             pausedRemaining |-> 0],
            parseSpec(in.spec, t))

editParsed(r, p) ==
  IF p.kind = "none" THEN r
  ELSE [storeParse(r, p) EXCEPT !.notified = FALSE, !.status = "active"]

\* saveEdit, case 4, an existing row: the reminder after the edit; a spec
\* that parses restarts it.
editReminder(r, in, t) ==
  editParsed([r EXCEPT !.reminder = normalizeText(in.reminder),
                       !.note = normalizeText(in.note),
                       !.spec = in.spec],
             parseSpec(in.spec, t))

\* saveEdit for the reminders tab with the form holding in, the rows
\* rebuilt (which sorts).
saveEdit(in) ==
  IF editingRow = -1
    THEN reminders' = sortReminders(Append(reminders, newReminder(reminders, in, now)))
  ELSE reminders' = sortReminders([reminders EXCEPT ![editingRow + 1] =
                                     editReminder(reminders[editingRow + 1], in, now)])

\* What the user has typed into a field by the time "enter" is pressed:
\* Keep leaves the field as the form was opened.
Keep == <<"<keep>">>

Typed(field, value) == IF value = Keep THEN inputs[field] ELSE value

\* handleEditingKeys: the keystrokes that fill the form (text, spec), then
\* "enter": saveEdit, and the form is closed. The user leaves neither the
\* text nor the spec empty.
EditEnter(text, spec) ==
  /\ Idle
  /\ editing
  /\ editingTab = 4
  /\ inputs # Nil
  /\ LET in == [reminder |-> Typed("reminder", text),
                note |-> inputs.note,
                spec |-> Typed("spec", spec)]
     IN /\ in.reminder # <<>>
        /\ in.spec # <<>>
        /\ saveEdit(in)
  /\ editing' = FALSE
  /\ inputs' = Nil
  /\ emitted' = <<>>
  /\ UNCHANGED <<now, activeTab, dailies, cursor, editingTab, editingRow,
                 statusMsg, panicked>>
  /\ UNCHANGED <<ticksArmed, waiting, confirmDelete, deleteTarget, dispatch, sounds>>

\* handleEditingKeys, "enter" on a form opened by "e" without a reminder
\* under the cursor: saveEdit indexes the nil inputs and the program panics.
EditEnterPanic ==
  /\ Idle
  /\ editing
  /\ editingTab = 4
  /\ inputs = Nil
  /\ panicked' = TRUE
  /\ emitted' = <<>>
  /\ UNCHANGED <<now, activeTab, reminders, dailies, cursor, editing,
                 editingTab, editingRow, inputs, statusMsg>>
  /\ UNCHANGED <<ticksArmed, waiting, confirmDelete, deleteTarget, dispatch, sounds>>

Next ==
  \/ Advance
  \/ Tick
  \/ \E k \in TabKeys : KeyTab(k)
  \/ KeyUp
  \/ KeyDown
  \/ KeyStart
  \/ KeyPause
  \/ KeyReset
  \/ KeyAdd
  \/ KeyEdit
  \/ EditEsc
  \/ \E text \in TextInputs \cup {Keep}, spec \in SpecInputs \cup {Keep} :
       EditEnter(text, spec)
  \/ EditEnterPanic

Spec == Init /\ [][Next]_vars

\* The end-to-end scenario: on an empty store the user opens the reminders
\* tab and adds one reminder with the spec "30s"; then only time and ticks.
InitE2E == Init /\ reminders = <<>>

AddThirtySeconds == EditEnter(<<"B", " ">>, <<"3", "0", "s">>)

NextE2E ==
  \/ AdvanceTo(MaxElapsedE2E)
  \/ Tick
  \/ KeyTab(4)
  \/ (reminders = <<>> /\ KeyAdd)
  \/ AddThirtySeconds

SpecE2E == InitE2E /\ [][NextE2E]_vars

\* ----------------------------------------------- the parser at the add form

\* The digits the user types for the number n (no sign).
RECURSIVE Decimal(_)
Decimal(n) ==
  IF n < 10 THEN <<Digits[n + 1]>>
  ELSE Decimal(n \div 10) \o <<Digits[(n % 10) + 1]>>

TwoDigits(n) == <<Digits[(n \div 10) + 1], Digits[(n % 10) + 1]>>

\* The countdown specs typed: a number and one of the eight unit suffixes.
CountdownNumbers == {0, 1, 5, 30, 90}

Units ==
  {[suffix |-> <<"s">>, dur |-> Second],
   [suffix |-> <<"s", "e", "c">>, dur |-> Second],
   [suffix |-> <<"m">>, dur |-> Minute],
   [suffix |-> <<"m", "i", "n">>, dur |-> Minute],
   [suffix |-> <<"h">>, dur |-> Hour],
   [suffix |-> <<"h", "r">>, dur |-> Hour],
   [suffix |-> <<"d">>, dur |-> 24 * Hour],
   [suffix |-> <<"w">>, dur |-> 7 * 24 * Hour]}

CountdownSpecs == {Decimal(n) \o u.suffix : n \in CountdownNumbers, u \in Units}

\* The alarm specs typed: a clock time written in the 24-hour layout (the
\* hour with or without its leading zero) or in one of the four 12-hour
\* layouts.
ClockTimes ==
  {[hour |-> 9, min |-> 30], [hour |-> 15, min |-> 30], [hour |-> 14, min |-> 0],
   [hour |-> 0, min |-> 5], [hour |-> 12, min |-> 0], [hour |-> 23, min |-> 59]}

Hour12(h) == IF h % 12 = 0 THEN 12 ELSE h % 12

Marker(h, upper) ==
  IF h < 12 THEN (IF upper THEN <<"A", "M">> ELSE <<"a", "m">>)
  ELSE (IF upper THEN <<"P", "M">> ELSE <<"p", "m">>)

AlarmRenderings(c) ==
  {TwoDigits(c.hour) \o <<":">> \o TwoDigits(c.min),
   Decimal(c.hour) \o <<":">> \o TwoDigits(c.min)}
  \cup {Decimal(Hour12(c.hour)) \o <<":">> \o TwoDigits(c.min) \o gap
          \o Marker(c.hour, upper) : gap \in {<<>>, <<" ">>}, upper \in BOOLEAN}

AlarmSpecs == UNION {AlarmRenderings(c) : c \in ClockTimes}

\* Countdown look-alikes: a negative number, a doubled suffix.
MalformedCountdowns == {<<"-", "5", "m">>, <<"5", "m", "m", "i", "n">>}

\* Specs of neither grammar.
UnrecognizedSpecs ==
  {<<"z", "z">>, <<"5", "x">>, <<"x", "d">>, <<"2", "5", ":", "0", "0">>,
   <<"1", "3", ":", "0", "0", "P", "M">>, <<"9", ":", "6", "0">>}

ParserSpecs ==
  CountdownSpecs \cup AlarmSpecs \cup MalformedCountdowns \cup UnrecognizedSpecs

\* "enter" on the form with one of the parser specs typed.
ParserEnter(spec) == EditEnter(<<"B", " ">>, spec)

\* On an empty store the user opens the reminders tab and adds one
\* reminder, at any moment around 14:00:00 and with any of the parser specs.
NextParser ==
  \/ Advance
  \/ KeyTab(4)
  \/ (reminders = <<>> /\ KeyAdd)
  \/ \E spec \in ParserSpecs : ParserEnter(spec)

SpecParser == InitE2E /\ [][NextParser]_vars

\* ------------------------------------------------------- the daily tasks

\* The dailies scenario starts on day 1 at 02:59:00 and the clock is read
\* at whole minutes, up to MaxDailyMinutes past the start, on the starting
\* day and on up to MaxDailyDays later days.
MaxDailyMinutes == 3

MaxDailyDays == 1

DailyStart == DayLen + 2 * Hour + 59 * Minute

\* A daily task as config.json holds it: incomplete, or done yesterday at
\* 02:58 or 03:05, or done today at 02:58, or done without a completion
\* time (a file written by hand).
FileDailies(id, task) ==
  {[id |-> id, task |-> task, category |-> <<"x">>, priority |-> "HIGH",
    status |-> "INCOMPLETE", lastCompleted |-> ZeroTime]}
  \cup {[id |-> id, task |-> task, category |-> <<"x">>, priority |-> "HIGH",
         status |-> "DONE", lastCompleted |-> at] :
          at \in {ZeroTime, DailyStart - DayLen - Minute,
                  DailyStart - DayLen + 6 * Minute, DailyStart - Minute}}

DailyStores ==
  {<<d>> : d \in FileDailies(1, <<"a">>)}
  \cup {<<d, e>> : d \in FileDailies(1, <<"a">>), e \in FileDailies(2, <<"b">>)}

\* initialModel with a store of dailies: loadData, the startup reset, then
\* setupTables (which sorts).
InitDaily ==
  /\ now = DailyStart
  /\ activeTab = 1
  /\ reminders = <<>>
  /\ \E file \in DailyStores :
       dailies = sortDailies(resetDailyTasks(file, DailyStart).dailies)
  /\ cursor = [i \in 0..3 |-> 0]
  /\ editing = FALSE
  /\ editingTab = 0
  /\ editingRow = 0
  /\ inputs = Nil
  /\ statusMsg = ""
  /\ emitted = <<>>
  /\ panicked = FALSE
  /\ ticksArmed = 1
  /\ waiting = 0
  /\ confirmDelete = FALSE
  /\ deleteTarget = <<>>
  /\ dispatch = <<>>
  /\ sounds = 0

\* Time passes: the clock reads one minute more.
AdvanceMinute ==
  /\ ~panicked
  /\ (now - DailyStart) % DayLen < MaxDailyMinutes * Minute
  /\ now' = now + Minute
  /\ UNCHANGED <<activeTab, reminders, dailies, cursor, editing, editingTab,
                 editingRow, inputs, statusMsg, emitted, panicked>>
  /\ UNCHANGED <<ticksArmed, waiting, confirmDelete, deleteTarget, dispatch, sounds>>

\* Time passes: the clock reads one day more.
AdvanceDay ==
  /\ ~panicked
  /\ (now - DailyStart) \div DayLen < MaxDailyDays
  /\ now' = now + DayLen
  /\ UNCHANGED <<activeTab, reminders, dailies, cursor, editing, editingTab,
                 editingRow, inputs, statusMsg, emitted, panicked>>
  /\ UNCHANGED <<ticksArmed, waiting, confirmDelete, deleteTarget, dispatch, sounds>>

\* table.Model.MoveUp / MoveDown on the dailies table.
KeyUpDailies ==
  /\ Idle
  /\ ~editing
  /\ activeTab = 2
  /\ Len(dailies) > 0
  /\ cursor[0] > 0
  /\ cursor' = [cursor EXCEPT ![0] = clamp(@ - 1, 0, Len(dailies) - 1)]
  /\ emitted' = <<>>
  /\ UNCHANGED <<now, activeTab, reminders, dailies, editing, editingTab,
                 editingRow, inputs, statusMsg, panicked>>
  /\ UNCHANGED <<ticksArmed, waiting, confirmDelete, deleteTarget, dispatch, sounds>>

KeyDownDailies ==
  /\ Idle
  /\ ~editing
  /\ activeTab = 2
  /\ Len(dailies) > 0
  /\ cursor[0] < Len(dailies) - 1
  /\ cursor' = [cursor EXCEPT ![0] = clamp(@ + 1, 0, Len(dailies) - 1)]
  /\ emitted' = <<>>
  /\ UNCHANGED <<now, activeTab, reminders, dailies, editing, editingTab,
                 editingRow, inputs, statusMsg, panicked>>
  /\ UNCHANGED <<ticksArmed, waiting, confirmDelete, deleteTarget, dispatch, sounds>>

\* toggleDaily that marks a task done without recording when.
toggleDaily_noStamp(d, t) ==
  IF d.status = "DONE"
    THEN [d EXCEPT !.status = "INCOMPLETE", !.lastCompleted = ZeroTime]
  ELSE [d EXCEPT !.status = "DONE"]

\* toggleDaily that keeps the completion time of a task it marks incomplete.
toggleDaily_keepStamp(d, t) ==
  IF d.status = "DONE"
    THEN [d EXCEPT !.status = "INCOMPLETE"]
  ELSE [d EXCEPT !.status = "DONE", !.lastCompleted = t]

\* The switch of toggleCompletion on one task at time t.
toggleDaily(d, t) ==
  IF d.status = "DONE"
    THEN [d EXCEPT !.status = "INCOMPLETE", !.lastCompleted = ZeroTime]
  ELSE [d EXCEPT !.status = "DONE", !.lastCompleted = t]

\* The keys " " and "enter" on the dailies tab: toggleCompletion on the
\* task under the cursor, the rows rebuilt (which sorts).
KeySpace ==
  /\ Idle
  /\ ~editing
  /\ activeTab = 2
  /\ Len(dailies) > 0
  /\ cursor[0] < Len(dailies)
  /\ dailies' = sortDailies([dailies EXCEPT ![cursor[0] + 1] = toggleDaily(@, now)])
  /\ statusMsg' = IF dailies[cursor[0] + 1].status = "DONE"
                    THEN "marked INCOMPLETE" ELSE "marked DONE"
  /\ emitted' = <<>>
  /\ UNCHANGED <<now, activeTab, reminders, cursor, editing, editingTab,
                 editingRow, inputs, panicked>>
  /\ UNCHANGED <<ticksArmed, waiting, confirmDelete, deleteTarget, dispatch, sounds>>

NextDaily ==
  \/ AdvanceMinute
  \/ AdvanceDay
  \/ Tick
  \/ KeyTab(2)
  \/ KeyUpDailies
  \/ KeyDownDailies
  \/ KeySpace

SpecDaily == InitDaily /\ [][NextDaily]_vars

\* ------------------------------------------------------------ the whole app

\* The clock of the whole-app scenario runs from AppStart, day 1 at
\* 02:59:58, to AppStart + MaxElapsedApp.
MaxElapsedApp == 3

AppStart == DailyStart + 58 * Second

\* The stores of the whole-app scenario: none or one reminder, none or one
\* daily task.
AppDailyStores == {<<>>} \cup {<<d>> : d \in FileDailies(1, <<"a">>)}

\* initialModel, setupTables
InitApp ==
  /\ now = AppStart
  /\ activeTab = 1
  /\ \E file \in FileStores : reminders = sortReminders(loadData(file, AppStart))
  /\ \E file \in AppDailyStores :
       dailies = sortDailies(resetDailyTasks(file, AppStart).dailies)
  /\ cursor = [i \in 0..3 |-> 0]
  /\ editing = FALSE
  /\ editingTab = 0
  /\ editingRow = 0
  /\ inputs = Nil
  /\ statusMsg = ""
  /\ emitted = <<>>
  /\ panicked = FALSE
  /\ ticksArmed = 1
  /\ waiting = 0
  /\ confirmDelete = FALSE
  /\ deleteTarget = <<>>
  /\ dispatch = <<>>
  /\ sounds = 0

\* Time passes: the clock reads one second more.
AdvanceApp ==
  /\ ~panicked
  /\ now < AppStart + MaxElapsedApp
  /\ now' = now + 1
  /\ UNCHANGED <<activeTab, reminders, dailies, cursor, editing, editingTab,
                 editingRow, inputs, statusMsg, emitted, panicked>>
  /\ UNCHANGED <<ticksArmed, waiting, confirmDelete, deleteTarget, dispatch, sounds>>

\* The tab keys of the whole-app scenario: "1", "2" and "4".
AppTabKeys == {1, 2, 4}

\* The name confirmDeleteSelected reads under the cursor of the active tab;
\* the rolling todos and the glossary are empty.
selectedName ==
  IF activeTab = 2 /\ cursor[0] < Len(dailies) THEN dailies[cursor[0] + 1].task
  ELSE IF activeTab = 4 /\ cursor[2] < Len(reminders)
    THEN reminders[cursor[2] + 1].reminder
  ELSE <<>>

\* append(s[:i], s[i+1:]...) for the 0-based index i.
RemoveAt(s, i) == SubSeq(s, 1, i) \o SubSeq(s, i + 2, Len(s))

\* deleteSelected with the active tab in 2..5: the row under the cursor is
\* removed, the rows rebuilt (which sorts), the message shown.
deleteSelected ==
  /\ dailies' = IF activeTab = 2 /\ cursor[0] < Len(dailies)
                  THEN sortDailies(RemoveAt(dailies, cursor[0]))
                ELSE dailies
  /\ reminders' = IF activeTab = 4 /\ cursor[2] < Len(reminders)
                    THEN sortReminders(RemoveAt(reminders, cursor[2]))
                  ELSE reminders
  /\ statusMsg' = IF \/ (activeTab = 2 /\ cursor[0] < Len(dailies))
                     \/ (activeTab = 4 /\ cursor[2] < Len(reminders))
                    THEN "deleted"
                  ELSE statusMsg

\* The keys "d" and "delete" deleting at once, without a confirmation.
KeyDelete_immediate ==
  /\ Idle
  /\ ~editing
  /\ activeTab > 1 /\ activeTab < 6
  /\ ~confirmDelete
  /\ deleteSelected
  /\ emitted' = <<>>
  /\ UNCHANGED <<now, activeTab, cursor, editing, editingTab, editingRow,
                 inputs, panicked, ticksArmed, waiting, confirmDelete,
                 deleteTarget, dispatch, sounds>>

\* The keys "d" and "delete": confirmDeleteSelected.
KeyDelete ==
  /\ Idle
  /\ ~editing
  /\ activeTab > 1 /\ activeTab < 6
  /\ ~confirmDelete
  /\ confirmDelete' = (selectedName # <<>>)
  /\ deleteTarget' = IF selectedName # <<>> THEN selectedName ELSE deleteTarget
  /\ emitted' = <<>>
  /\ UNCHANGED <<now, activeTab, reminders, dailies, cursor, editing, editingTab,
                 editingRow, inputs, statusMsg, panicked, ticksArmed, waiting, dispatch, sounds>>

\* The key "n" while a delete waits for its confirmation.
KeyNo ==
  /\ Idle
  /\ ~editing
  /\ confirmDelete
  /\ confirmDelete' = FALSE
  /\ deleteTarget' = <<>>
  /\ statusMsg' = "delete cancelled"
  /\ emitted' = <<>>
  /\ UNCHANGED <<now, activeTab, reminders, dailies, cursor, editing, editingTab,
                 editingRow, inputs, panicked, ticksArmed, waiting, dispatch, sounds>>

\* The key "y" while a delete waits for its confirmation: deleteSelected,
\* which indexes tables[activeTab-2] and panics on the overview tab.
KeyYes ==
  /\ Idle
  /\ ~editing
  /\ confirmDelete
  /\ IF activeTab = 1
       THEN /\ panicked' = TRUE
            /\ UNCHANGED <<reminders, dailies, statusMsg, confirmDelete, deleteTarget>>
     ELSE /\ deleteSelected
          /\ confirmDelete' = FALSE
          /\ deleteTarget' = <<>>
          /\ UNCHANGED panicked
  /\ emitted' = <<>>
  /\ UNCHANGED <<now, activeTab, cursor, editing, editingTab, editingRow, inputs,
                 ticksArmed, waiting, dispatch, sounds>>

\* Update(statusMsg): the message showStatus sent when a form was closed
\* arrives and is shown.
StatusEvent ==
  /\ Idle
  /\ ~editing
  /\ editingTab # 0
  /\ \E text \in {"saved", "cancelled"} : statusMsg' = text
  /\ UNCHANGED <<now, activeTab, reminders, dailies, cursor, editing, editingTab,
                 editingRow, inputs, emitted, panicked>>
  /\ UNCHANGED <<ticksArmed, waiting, confirmDelete, deleteTarget, dispatch, sounds>>

NextApp ==
  \/ AdvanceApp
  \/ Tick
  \/ \E k \in AppTabKeys : KeyTab(k)
  \/ KeySpace
  \/ KeyStart
  \/ KeyPause
  \/ KeyReset
  \/ (reminders = <<>> /\ KeyAdd)
  \/ KeyEdit
  \/ EditEsc
  \/ \E text \in TextInputs \cup {Keep}, spec \in SpecInputs \cup {Keep} :
       EditEnter(text, spec)
  \/ EditEnterPanic
  \/ KeyDelete
  \/ KeyYes
  \/ KeyNo
  \/ StatusEvent

SpecApp == InitApp /\ [][NextApp]_vars

\* --------------------------------------------- the tick, call by call

\* At most MaxSounds sound commands run at a time: a new one is started
\* when an earlier one has ended.
MaxSounds == 2

\* The first row from row `from` on that the pass finds due at time t, or 0.
firstDue(rs, from, t) ==
  IF \E i \in from..Len(rs) : isDue(rs[i], t)
    THEN CHOOSE i \in from..Len(rs) :
           /\ isDue(rs[i], t)
           /\ \A j \in from..(i - 1) : ~isDue(rs[j], t)
  ELSE 0

\* sendNotification whose failure puts the reminder back for another try.
notifyOutcome_retry(r, ok) ==
  IF ok THEN r ELSE [r EXCEPT !.status = "active", !.notified = FALSE]

\* The reminder after its sendNotification call returned: Run()'s error is
\* dropped, the reminder is as the loop body left it.
notifyOutcome(r, ok) == r

\* The pass over the reminders rs arrives at the due row k, marks it and
\* calls sendNotification, which starts the sound command with go and then
\* waits in the notification command; with no due row left (k = 0)
\* the rows are rebuilt (which sorts) and tickCmd() is returned.
PassStep(k, rs, em, armed) ==
  /\ k # 0 => sounds < MaxSounds
  /\ reminders' = IF k = 0 THEN sortReminders(rs)
                  ELSE [rs EXCEPT ![k] = expireReminder(@, now)]
  /\ emitted' = IF k = 0 THEN em ELSE Append(em, rs[k].reminder)
  /\ waiting' = k
  /\ ticksArmed' = IF k = 0 THEN armed + 1 ELSE armed
  /\ sounds' = IF k = 0 THEN sounds ELSE sounds + 1

TickBeginWith(res, k) ==
  /\ dailies' = IF res.resetOccurred THEN sortDailies(res.dailies) ELSE dailies
  /\ statusMsg' = IF res.resetOccurred THEN "dailies reset" ELSE statusMsg
  /\ PassStep(k, reminders, <<>>, ticksArmed - 1)

\* Update(tickMsg) up to its first sendNotification call: the armed tick is
\* delivered, the daily reset done, and the pass runs to the first due
\* reminder, or to its end.
TickBegin ==
  /\ Idle
  /\ ticksArmed > 0
  /\ TickBeginWith(resetDailyTasks(dailies, now), firstDue(reminders, 1, now))
  /\ dispatch' = <<>>
  /\ UNCHANGED <<now, activeTab, cursor, editing, editingTab, editingRow,
                 inputs, panicked, confirmDelete, deleteTarget>>

\* The notification command finishes, with or without an error, Run()
\* returns, and Update(tickMsg) goes on from the next row.
NotifyReturn(ok) ==
  /\ ~panicked
  /\ waiting > 0
  /\ PassStep(firstDue(reminders, waiting + 1, now),
              [reminders EXCEPT ![waiting] = notifyOutcome(@, ok)],
              emitted, ticksArmed)
  /\ statusMsg' = "reminder"
  /\ dispatch' = Append(dispatch, ok)
  /\ UNCHANGED <<now, activeTab, dailies, cursor, editing, editingTab,
                 editingRow, inputs, panicked, confirmDelete, deleteTarget>>

\* A sound command started by playNotificationSound ends, and with it the
\* goroutine that ran it.
SoundExit ==
  /\ ~panicked
  /\ sounds > 0
  /\ sounds' = sounds - 1
  /\ UNCHANGED <<now, activeTab, reminders, dailies, cursor, editing,
                 editingTab, editingRow, inputs, statusMsg, emitted, panicked,
                 ticksArmed, waiting, confirmDelete, deleteTarget, dispatch>>

NextNotify ==
  \/ Advance
  \/ TickBegin
  \/ \E ok \in BOOLEAN : NotifyReturn(ok)
  \/ SoundExit
  \/ \E k \in TabKeys : KeyTab(k)
  \/ KeyDown
  \/ KeyStart
  \/ KeyPause
  \/ KeyReset
  \/ KeyAdd
  \/ \E text \in TextInputs \cup {Keep}, spec \in SpecInputs \cup {Keep} :
       EditEnter(text, spec)

SpecNotify == Init /\ [][NextNotify]_vars

\* ------------------------------------------------- delete and its prompt

\* The keys between "d" and "y": the user moves the cursor, switches tabs,
\* adds reminders and toggles tasks while ticks go on; no item is renamed.
NextConfirm ==
  \/ AdvanceApp
  \/ Tick
  \/ \E k \in AppTabKeys : KeyTab(k)
  \/ KeyUp
  \/ KeyDown
  \/ KeySpace
  \/ KeyAdd
  \/ \E spec \in SpecInputs : EditEnter(<<"B", " ">>, spec)
  \/ KeyDelete
  \/ KeyYes
  \/ KeyNo

SpecConfirm == InitApp /\ [][NextConfirm]_vars

\* ------------------------------------------------------ from an empty store

\* Every reminder key, the form, ticks and delete, on a store that starts
\* empty.
NextFromEmpty ==
  \/ Next
  \/ KeyDelete
  \/ KeyYes
  \/ KeyNo

SpecFromEmpty == InitE2E /\ [][NextFromEmpty]_vars

\* ------------------------------------------------------------ fair ticking

\* The user is at the keyboard during the first seconds only: a countdown
\* set then has its target inside the time the clock covers.
Early == now + 2 <= StartNow + MaxElapsed

\* One reminder at a time on a store that starts empty: the user adds it,
\* edits, starts, pauses, resets and deletes it.
UserLive ==
  \/ (reminders = <<>> /\ KeyAdd)
  \/ KeyEdit
  \/ EditEsc
  \/ \E text \in TextInputs \cup {Keep}, spec \in SpecInputs \cup {Keep} :
       EditEnter(text, spec)
  \/ EditEnterPanic
  \/ KeyStart
  \/ KeyPause
  \/ KeyReset
  \/ KeyDelete
  \/ KeyYes
  \/ KeyNo

NextLive ==
  \/ Advance
  \/ Tick
  \/ KeyTab(4)
  \/ (Early /\ UserLive)

\* The clock goes on and every armed tick is delivered.
SpecLive ==
  InitE2E /\ [][NextLive]_vars /\ WF_vars(Advance) /\ WF_vars(Tick)

\* --------------------------------------------------- durations in 64 bits

\* An int64 is held as LimbCount limbs to the base LimbBase, lowest first;
\* the exact value of a product is held in twice as many.
LimbBase == 256

LimbCount == 8

ZeroWide == [i \in 1..(2 * LimbCount) |-> 0]

\* a * m + c over the limbs of a; a carry out of the top limb is lost, as
\* in a machine multiplication.
RECURSIVE MulAdd(_, _, _)
MulAdd(a, m, c) ==
  IF a = <<>> THEN <<>>
  ELSE <<(a[1] * m + c) % LimbBase>>
         \o MulAdd(Tail(a), m, (a[1] * m + c) \div LimbBase)

\* The value of a string of decimal digits, added to acc digit by digit.
RECURSIVE FromDigits(_, _)
FromDigits(s, acc) ==
  IF s = <<>> THEN acc
  ELSE FromDigits(Tail(s), MulAdd(acc, 10, DigitVal(Head(s))))

\* The value is at most 1<<63 - 1.
FitsInt64(w) ==
  /\ \A i \in (LimbCount + 1)..(2 * LimbCount) : w[i] = 0
  /\ w[LimbCount] < LimbBase \div 2

\* strconv.Atoi on an unsigned decimal string, with int 64 bits wide: a
\* value beyond 1<<63 - 1 is a range error.
Atoi64(s) ==
  [ok |-> /\ Len(s) > 0
          /\ \A i \in 1..Len(s) : IsDigit(s[i])
          /\ FitsInt64(FromDigits(s, ZeroWide)),
   val |-> FromDigits(s, ZeroWide)]

\* a multiplied by each of the factors in turn.
RECURSIVE Times(_, _)
Times(a, factors) ==
  IF factors = <<>> THEN a
  ELSE Times(MulAdd(a, Head(factors), 0), Tail(factors))

\* time.Second in nanoseconds, and the multipliers of parseCountdown's five
\* rules, as products of small factors (multiplying modulo 2^64 by a product
\* is multiplying by its factors in turn).
NanosPerSecond == <<1000, 1000, 1000>>

UnitFactors(u) ==
  CASE u = "d" -> <<24, 3600>> \o NanosPerSecond
    [] u = "w" -> <<7, 24, 3600>> \o NanosPerSecond
    [] u = "m" -> <<60>> \o NanosPerSecond
    [] u = "h" -> <<3600>> \o NanosPerSecond
    [] u = "s" -> NanosPerSecond

\* time.Duration(n) * unit as the program computes it, in int64.
Duration64(n, u) == Times(SubSeq(n, 1, LimbCount), UnitFactors(u))

\* n * unit as a number.
DurationExact(n, u) == Times(n, UnitFactors(u))

\* The int64 is negative.
Negative64(v) == v[LimbCount] >= LimbBase \div 2

\* The int64 v as a number, when it is not negative.
Widen(v) == v \o [i \in 1..LimbCount |-> 0]

\* Counts around the largest that each unit can take, written as the user
\* types them.
LargeCounts ==
  {<<"1">>,
   <<"1", "5", "2", "5", "0">>,
   <<"1", "5", "2", "5", "1">>,
   <<"1", "0", "6", "7", "5", "1">>,
   <<"1", "0", "6", "7", "5", "2">>,
   <<"2", "5", "6", "2", "0", "4", "7">>,
   <<"2", "5", "6", "2", "0", "4", "8">>,
   <<"1", "5", "3", "7", "2", "2", "8", "6", "7">>,
   <<"1", "5", "3", "7", "2", "2", "8", "6", "8">>,
   <<"9", "2", "2", "3", "3", "7", "2", "0", "3", "6">>,
   <<"9", "2", "2", "3", "3", "7", "2", "0", "3", "7">>,
   <<"9", "2", "2", "3", "3", "7", "2", "0", "3", "6", "8", "5", "4", "7", "7",
     "5", "8", "0", "7">>,
   <<"9", "2", "2", "3", "3", "7", "2", "0", "3", "6", "8", "5", "4", "7", "7",
     "5", "8", "0", "8">>}

UnitLetters == {"d", "w", "m", "h", "s"}

\* The countdown specs typed: a large count and a unit letter.
LargeSpecs == {n \o <<u>> : n \in LargeCounts, u \in UnitLetters}

\* handleEditingKeys, default branch: the keystrokes go to the spec field
\* of the open form, which then reads str.
TypeSpec(str) ==
  /\ Idle
  /\ editing
  /\ inputs # Nil
  /\ inputs' = [inputs EXCEPT !.spec = str]
  /\ emitted' = <<>>
  /\ UNCHANGED <<now, activeTab, reminders, dailies, cursor, editing,
                 editingTab, editingRow, statusMsg, panicked>>
  /\ UNCHANGED <<ticksArmed, waiting, confirmDelete, deleteTarget, dispatch, sounds>>

\* The user opens the form for a new reminder and types a spec with a
\* large count.
NextLarge ==
  \/ Advance
  \/ KeyTab(4)
  \/ KeyAdd
  \/ EditEsc
  \/ \E str \in LargeSpecs : TypeSpec(str)

SpecLarge == InitE2E /\ [][NextLarge]_vars

\* The count and the unit letter of a typed countdown spec.
CountOf(str) == SubSeq(str, 1, Len(str) - 1)

UnitOf(str) == str[Len(str)]

TypeOK ==
  /\ now \in StartNow..(StartNow + MaxElapsedE2E)
  /\ activeTab \in 1..5
  /\ Len(reminders) <= MaxReminders
  /\ \A i \in 1..Len(reminders) :
       /\ reminders[i].status \in {"", "active", "paused", "expired", "inactive"}
       /\ reminders[i].pausedRemaining >= 0
  /\ editing \in BOOLEAN
  /\ panicked \in BOOLEAN

\* =================================================================== claims

\* The reminder with identity id (identities are distinct while nothing is
\* deleted), the reminder under the cursor, and a reminder after the step.
ById(rs, id) == rs[CHOOSE i \in 1..Len(rs) : rs[i].id = id]

Cur == reminders[cursor[2] + 1]

AfterOf(r) == ById(reminders', r.id)

AnyEditEnter ==
  \E text \in TextInputs \cup {Keep}, spec \in SpecInputs \cup {Keep} :
    EditEnter(text, spec)

Occurrences(seq, x) == Cardinality({k \in 1..Len(seq) : seq[k] = x})

Max0(n) == IF n < 0 THEN 0 ELSE n

\* The reminders whose notified flag a step turns from false to true.
NewlyNotified ==
  {i \in 1..Len(reminders) : ~reminders[i].notified /\ AfterOf(reminders[i]).notified}

\* C1: the notify intent fires exactly once per activation cycle. Only a
\* tick turns notified from false to true; a tick does so for every active,
\* un-notified reminder whose target has passed, expiring it and calling
\* sendNotification once with its text; a tick leaves a reminder that is
\* already notified exactly as it is and emits nothing for it; and no other
\* step emits a notification.
C1_NotifyExactlyOnce ==
  [][ /\ NewlyNotified # {} => Tick
      /\ Tick =>
           /\ Len(emitted') = Cardinality(NewlyNotified)
           /\ \A i \in 1..Len(reminders) :
                LET r == reminders[i]
                IN /\ r.notified => AfterOf(r) = r
                   /\ (r.status = "active" /\ ~r.notified /\ r.targetTime # ZeroTime
                         /\ now > r.targetTime) => i \in NewlyNotified
                   /\ i \in NewlyNotified =>
                        /\ r.status = "active"
                        /\ AfterOf(r).status = "expired"
                        /\ Occurrences(emitted', r.reminder) =
                             Cardinality({j \in NewlyNotified :
                                            reminders[j].reminder = r.reminder})
      /\ ~Tick => emitted' = <<>> \/ emitted' = emitted
    ]_vars

\* C1 witness: a tick has just expired a reminder and sent its one
\* notification.
C1_Witness ==
  /\ Len(emitted) = 1
  /\ \E i \in 1..Len(reminders) :
       /\ reminders[i].status = "expired"
       /\ reminders[i].notified
       /\ reminders[i].reminder = emitted[1]

\* C2 (as claimed): a tick expires a reminder exactly when it is active,
\* not notified and now >= targetTime (a resolved target), and leaves it as
\* it is otherwise.
C2_ExpiresAtOrAfterTarget ==
  [][ Tick =>
        \A i \in 1..Len(reminders) :
          LET r == reminders[i]
              due == /\ r.status = "active"
                     /\ ~r.notified
                     /\ r.targetTime # ZeroTime
                     /\ now >= r.targetTime
          IN AfterOf(r) = IF due THEN [r EXCEPT !.status = "expired", !.notified = TRUE]
                          ELSE r
    ]_vars

\* C3: end to end. The reminder added with "30s" at T0 is active with
\* target T0 + 30; it is active in every state up to T0 + 29 and no tick up
\* to then emits anything; a tick at T0 + 31 or later that finds it active
\* expires it and emits exactly its one notification; ticks after that emit
\* nothing.
C3_EndToEnd ==
  /\ [](\A i \in 1..Len(reminders) :
          now <= (reminders[i].targetTime - 30) + 29 => reminders[i].status = "active")
  /\ [][ /\ AddThirtySeconds =>
              /\ Len(reminders') = 1
              /\ reminders'[1].status = "active"
              /\ reminders'[1].targetTime = now + 30
              /\ ~reminders'[1].notified
         /\ Tick =>
              \A i \in 1..Len(reminders) :
                LET r == reminders[i]
                    T0 == r.targetTime - 30
                IN /\ now <= T0 + 29 => AfterOf(r).status = "active" /\ emitted' = <<>>
                   /\ (now >= T0 + 31 /\ r.status = "active") =>
                        /\ AfterOf(r).status = "expired"
                        /\ emitted' = <<r.reminder>>
                   /\ r.status = "expired" => AfterOf(r) = r /\ emitted' = <<>>
       ]_vars

\* C3 witness: at T0 + 31 the tick has expired the reminder and emitted its
\* one notification.
C3_Witness ==
  /\ Len(reminders) = 1
  /\ reminders[1].spec = <<"3", "0", "s">>
  /\ reminders[1].status = "expired"
  /\ now = (reminders[1].targetTime - 30) + 31
  /\ emitted = <<reminders[1].reminder>>

\* C4: pause/resume round trip. Pausing an active reminder with d =
\* targetTime - now > 0 stores d; while it stays paused the stored d does
\* not change; start at time t2 makes it active with targetTime = t2 + d.
C4_PauseResumeRoundTrip ==
  [][ /\ (KeyPause /\ Cur.status = "active" /\ Cur.targetTime - now > 0) =>
           /\ AfterOf(Cur).status = "paused"
           /\ AfterOf(Cur).pausedRemaining = Cur.targetTime - now
      /\ \A i \in 1..Len(reminders) :
           (reminders[i].status = "paused" /\ AfterOf(reminders[i]).status = "paused") =>
             AfterOf(reminders[i]).pausedRemaining = reminders[i].pausedRemaining
      /\ (KeyStart /\ Cur.status = "paused" /\ Cur.pausedRemaining > 0) =>
           /\ AfterOf(Cur).status = "active"
           /\ AfterOf(Cur).targetTime = now + Cur.pausedRemaining
           /\ AfterOf(Cur).pausedRemaining = 0
    ]_vars

\* C4 witness: the only reminder was paused with time remaining and has
\* just been resumed at a later time: its target lies beyond any target a
\* parse up to now could have given it.
C4_Witness ==
  /\ Len(reminders) = 1
  /\ statusMsg = "resumed"
  /\ reminders[1].status = "active"
  /\ reminders[1].spec = <<"1", "s">>
  /\ reminders[1].targetTime = now + 1
  /\ now > StartNow
  /\ editingTab = 0

\* C5: pause on an active reminder sets pausedRemaining to
\* max(0, targetTime - now) and status to paused, and changes nothing else,
\* also when the target has passed or is unset.
C5_PauseStoresRemaining ==
  [][ (KeyPause /\ Cur.status = "active") =>
        /\ AfterOf(Cur) = [Cur EXCEPT !.pausedRemaining = Max0(Cur.targetTime - now),
                                      !.status = "paused"]
        /\ statusMsg' = "paused"
    ]_vars

\* C5 witness: a reminder paused after its target had passed holds a
\* remainder of zero.
C5_Witness ==
  /\ statusMsg = "paused"
  /\ Len(reminders) = 1
  /\ reminders[1].status = "paused"
  /\ reminders[1].targetTime # ZeroTime
  /\ reminders[1].targetTime < now
  /\ reminders[1].pausedRemaining = 0

\* C6: reset in any status leaves the reminder active, not notified, with
\* pausedRemaining 0 and, when the stored spec parses, with the target and
\* kind of that parse at now; the "1s" countdown restarts as now + 1 second.
C6_ResetReparses ==
  [][ KeyReset =>
        LET p == parseSpec(Cur.spec, now)
        IN /\ AfterOf(Cur).status = "active"
           /\ ~AfterOf(Cur).notified
           /\ AfterOf(Cur).pausedRemaining = 0
           /\ p.kind # "none" =>
                /\ AfterOf(Cur).targetTime = p.t
                /\ AfterOf(Cur).isCountdown = (p.kind = "countdown")
           /\ Cur.spec = <<"1", "s">> => AfterOf(Cur).targetTime = now + 1
           /\ statusMsg' = "reset"
    ]_vars

\* C6 witness: the stored countdown, reset some seconds after the program
\* start, runs its original duration from now.
C6_Witness ==
  /\ statusMsg = "reset"
  /\ Len(reminders) = 1
  /\ editingTab = 0
  /\ reminders[1].status = "active"
  /\ reminders[1].spec = <<"1", "s">>
  /\ reminders[1].targetTime = now + 1
  /\ now > StartNow + 1

\* C7: start on an inactive reminder makes it active and not notified and,
\* when the stored spec parses, stores the target and kind of that parse at
\* now; start changes a reminder exactly when it is inactive or paused.
C7_StartFromInactive ==
  [][ KeyStart =>
        /\ Cur.status = "inactive" =>
             LET p == parseSpec(Cur.spec, now)
             IN /\ AfterOf(Cur).status = "active"
                /\ ~AfterOf(Cur).notified
                /\ p.kind # "none" =>
                     /\ AfterOf(Cur).targetTime = p.t
                     /\ AfterOf(Cur).isCountdown = (p.kind = "countdown")
                /\ statusMsg' = "started"
        /\ Cur.status = "paused" => AfterOf(Cur).status = "active"
        /\ Cur.status \notin {"inactive", "paused"} => AfterOf(Cur) = Cur
    ]_vars

\* C7 witness: the stored inactive reminder has been started after the
\* program start and carries the target parsed at that moment.
C7_Witness ==
  /\ statusMsg = "started"
  /\ Len(reminders) = 1
  /\ editingTab = 0
  /\ reminders[1].status = "active"
  /\ reminders[1].spec = <<"1", "s">>
  /\ reminders[1].targetTime = now + 1
  /\ now > StartNow

\* C8: start on an active reminder is rejected with "already active" and
\* leaves the reminder as it is.
C8_StartOnActiveRejected ==
  [][ (KeyStart /\ Cur.status = "active") =>
        /\ AfterOf(Cur) = Cur
        /\ statusMsg' = "already active"
    ]_vars

\* C8 witness: the stored reminder, loaded active and never edited, shows
\* "already active" and is still active.
C8_Witness ==
  /\ statusMsg = "already active"
  /\ Len(reminders) = 1
  /\ editingTab = 0
  /\ reminders[1].status = "active"

\* C9: pause on a reminder that is not active is rejected with "not
\* active" and leaves the reminder as it is.
C9_PauseOnNonActiveRejected ==
  [][ (KeyPause /\ Cur.status # "active") =>
        /\ AfterOf(Cur) = Cur
        /\ statusMsg' = "not active"
    ]_vars

\* C9 witness: a second pause on the paused reminder was rejected.
C9_Witness ==
  /\ statusMsg = "not active"
  /\ Len(reminders) = 1
  /\ editingTab = 0
  /\ reminders[1].status = "paused"

\* C10 (as claimed): no tick and no pause changes an expired reminder, and
\* an explicit start or reset returns it to active.
C10_StartOrResetLeavesExpired ==
  [][ /\ (Tick \/ KeyPause) =>
           \A i \in 1..Len(reminders) :
             reminders[i].status = "expired" => AfterOf(reminders[i]) = reminders[i]
      /\ ((KeyStart \/ KeyReset) /\ Cur.status = "expired") =>
           AfterOf(Cur).status = "active"
    ]_vars

\* C10 (amended): no tick, no pause and no start changes an expired
\* reminder; it leaves expired only for active, and only by a reset or by
\* saving an edit; reset returns it to active.
C10_ExpiredUntilReset ==
  [][ /\ (Tick \/ KeyPause \/ KeyStart) =>
           \A i \in 1..Len(reminders) :
             reminders[i].status = "expired" => AfterOf(reminders[i]) = reminders[i]
      /\ \A i \in 1..Len(reminders) :
           (reminders[i].status = "expired" /\ AfterOf(reminders[i]).status # "expired") =>
             /\ AfterOf(reminders[i]).status = "active"
             /\ KeyReset \/ AnyEditEnter
      /\ (KeyReset /\ Cur.status = "expired") => AfterOf(Cur).status = "active"
    ]_vars

\* C10 witness: start on the expired reminder was rejected and it is still
\* expired.
C10_Witness ==
  /\ statusMsg = "already active"
  /\ Len(reminders) = 1
  /\ reminders[1].status = "expired"
  /\ reminders[1].notified

\* C11 (as claimed): of targetTime and pausedRemaining exactly one is
\* meaningful at any time: an active reminder has a resolved target and
\* pausedRemaining 0, and pausedRemaining holds a value only while the
\* reminder is paused.
C11_TargetOrRemaining ==
  \A i \in 1..Len(reminders) :
    /\ reminders[i].status = "active" =>
         /\ reminders[i].targetTime # ZeroTime
         /\ reminders[i].pausedRemaining = 0
    /\ reminders[i].pausedRemaining # 0 => reminders[i].status = "paused"

\* The reminder a step adds to the store.
Added == ById(reminders', Len(reminders) + 1)

\* C12 (as claimed): whenever the parser accepts the typed spec, the target
\* it produces is strictly later than the moment of parsing.
C12_TargetInFuture ==
  [][ \A spec \in ParserSpecs :
        (ParserEnter(spec) /\ parseSpec(spec, now).kind # "none") =>
          Added.targetTime > now
    ]_vars

C14_CountdownPrefixNonNegative ==
  [][ \A spec \in MalformedCountdowns \cup UnrecognizedSpecs :
        ParserEnter(spec) =>
          /\ ~parseCountdown(spec, now).ok
          /\ ~Added.isCountdown
          /\ Added.spec = spec
          /\ ~panicked'
    ]_vars

\* C15 (as claimed): an alarm spec, in the 24-hour or a 12-hour layout,
\* parsed at now gives the typed hour and minute on now's date with seconds
\* zero, advanced by exactly 24 hours when that instant is not strictly
\* after now, and left on now's date otherwise.
C15_AlarmNextOccurrence ==
  [][ \A c \in ClockTimes : \A spec \in AlarmRenderings(c) :
        ParserEnter(spec) =>
          /\ ~Added.isCountdown
          /\ Added.targetTime =
               IF DateAt(now, c.hour, c.min) > now
                 THEN DateAt(now, c.hour, c.min)
               ELSE DateAt(now, c.hour, c.min) + 24 * Hour
    ]_vars

\* C16: on add the spec is parsed at once: a spec that parses gives the new
\* reminder the parsed target and status active; a spec of neither grammar
\* still adds the reminder, with a zero target, not active, and without any
\* substituted duration.
C16_AddParsesImmediately ==
  [][ \A spec \in ParserSpecs :
        ParserEnter(spec) =>
          /\ Len(reminders') = Len(reminders) + 1
          /\ Added.spec = spec
          /\ parseSpec(spec, now).kind # "none" =>
               /\ Added.status = "active"
               /\ Added.targetTime = parseSpec(spec, now).t
               /\ Added.targetTime # ZeroTime
          /\ parseSpec(spec, now).kind = "none" =>
               /\ Added.status # "active"
               /\ Added.targetTime = ZeroTime
               /\ ~Added.isCountdown
               /\ Added.pausedRemaining = 0
    ]_vars

\* C16 witness: the reminder added with the spec "5x" is in the store,
\* unresolved and not active.
C16_Witness ==
  /\ Len(reminders) = 1
  /\ reminders[1].spec = <<"5", "x">>
  /\ reminders[1].targetTime = ZeroTime
  /\ reminders[1].status = ""
  /\ ~editing

\* C17 (as claimed): a reminder whose stored spec the parser does not
\* recognise is never active, whatever add, edit, start, pause, reset and
\* tick steps were taken.
C17_UnrecognizedNeverActive ==
  \A i \in 1..Len(reminders) :
    parseSpec(reminders[i].spec, now).kind = "none" =>
      reminders[i].status # "active"

\* The daily task with identity id, and a task after the step.
DailyById(ds, id) == ds[CHOOSE i \in 1..Len(ds) : ds[i].id = id]

DailyAfter(d) == DailyById(dailies', d.id)

\* C18: at every moment t the boundary getMostRecent3AM(t) is the latest
\* 03:00 that is <= t: it is a 03:00 instant, it is <= t, less than 24
\* hours before t, and it never decreases as t grows; at 02:59 it is
\* yesterday's 03:00 and at 03:01 today's. Checked at every second of the
\* minute that starts at now, and from each clock reading to the next.
C18_MostRecentBoundary ==
  /\ [](\A d \in 0..(Minute - 1) :
          /\ getMostRecent3AM(now + d) % DayLen = 3 * Hour
          /\ getMostRecent3AM(now + d) <= now + d
          /\ now + d - getMostRecent3AM(now + d) < DayLen
          /\ getMostRecent3AM(now + d) <= getMostRecent3AM(now + d + 1)
          /\ (now + d) % DayLen = 2 * Hour + 59 * Minute =>
               getMostRecent3AM(now + d) = now + d - DayLen + Minute
          /\ (now + d) % DayLen = 3 * Hour + Minute =>
               getMostRecent3AM(now + d) = now + d - Minute)
  /\ [][getMostRecent3AM(now) <= getMostRecent3AM(now')]_vars

\* C18 witness: at 03:01 of the second day a tick has reset a task against
\* that day's 03:00.
C18_Witness ==
  /\ now = DailyStart + DayLen + 2 * Minute
  /\ getMostRecent3AM(now) = DailyStart + DayLen + Minute
  /\ statusMsg = "dailies reset"
  /\ \E i \in 1..Len(dailies) : dailies[i].status = "INCOMPLETE"

\* C19: a tick resets a daily task if and only if the task is done and its
\* completion time is strictly before the current boundary; a task
\* completed at or after the boundary stays as it is.
C19_ResetIffDoneBeforeBoundary ==
  [][ Tick =>
        \A i \in 1..Len(dailies) :
          IF dailies[i].status = "DONE"
               /\ dailies[i].lastCompleted < getMostRecent3AM(now)
            THEN DailyAfter(dailies[i]).status = "INCOMPLETE"
          ELSE DailyAfter(dailies[i]) = dailies[i]
    ]_vars

\* C19 witness: at 03:02 a task completed at 03:00, exactly at the
\* boundary, is still done after the tick that reset the other task.
C19_Witness ==
  /\ now % DayLen = 3 * Hour + 2 * Minute
  /\ statusMsg = "dailies reset"
  /\ \E i \in 1..Len(dailies) :
       /\ dailies[i].status = "DONE"
       /\ dailies[i].lastCompleted = getMostRecent3AM(now)

\* C20: the reset leaves a task incomplete with its completion time
\* cleared; it leaves an incomplete task as it is; and a second pass at the
\* same moment changes nothing and reports no reset.
C20_ResetIdempotent ==
  [][ Tick =>
        /\ \A i \in 1..Len(dailies) :
             /\ DailyAfter(dailies[i]) # dailies[i] =>
                  /\ DailyAfter(dailies[i]).status = "INCOMPLETE"
                  /\ DailyAfter(dailies[i]).lastCompleted = ZeroTime
             /\ dailies[i].status = "INCOMPLETE" =>
                  /\ resetDaily(dailies[i], now) = dailies[i]
                  /\ DailyAfter(dailies[i]) = dailies[i]
        /\ ~resetDailyTasks(dailies', now).resetOccurred
        /\ resetDailyTasks(dailies', now).dailies = dailies'
    ]_vars

\* C20 witness: the tick at 03:00 of the first day has reset a task.
C20_Witness ==
  /\ now = DailyStart + Minute
  /\ statusMsg = "dailies reset"
  /\ \E i \in 1..Len(dailies) :
       /\ dailies[i].status = "INCOMPLETE"
       /\ dailies[i].lastCompleted = ZeroTime

\* The first 03:00 instant strictly after t.
NextBoundaryAfter(t) ==
  IF t % DayLen < 3 * Hour THEN (t - (t % DayLen)) + 3 * Hour
  ELSE (t - (t % DayLen)) + DayLen + 3 * Hour

\* C21: daily tasks reset at 3 AM. A task done at time t is left as it is
\* by every tick before the first 03:00 after t and is incomplete after a
\* tick at or after that 03:00; and the check at startup has done the same,
\* so no task is done from before the boundary the program started in.
C21_ResetAtThreeAM ==
  /\ [](\A i \in 1..Len(dailies) :
          dailies[i].status = "DONE" =>
            NextBoundaryAfter(dailies[i].lastCompleted) > DailyStart)
  /\ [][ Tick =>
           \A i \in 1..Len(dailies) :
             dailies[i].status = "DONE" =>
               IF now < NextBoundaryAfter(dailies[i].lastCompleted)
                 THEN DailyAfter(dailies[i]) = dailies[i]
               ELSE DailyAfter(dailies[i]).status = "INCOMPLETE"
     ]_vars

\* C21 witness: at 03:00 of the second day a tick has reset a task while
\* the other task, done that minute, is still done.
C21_Witness ==
  /\ now = DailyStart + DayLen + Minute
  /\ statusMsg = "dailies reset"
  /\ Len(dailies) = 2
  /\ \E i, j \in 1..Len(dailies) :
       /\ dailies[i].status = "INCOMPLETE"
       /\ dailies[j].status = "DONE"
       /\ dailies[j].lastCompleted = now

\* C22: a done task has a completion time, one that is not in the future
\* and not before the boundary of the moment it was set; the toggle that
\* marks a task done records now, which is at or after the boundary of now.
C22_DoneHasCompletionTime ==
  /\ [](\A i \in 1..Len(dailies) :
          dailies[i].status = "DONE" =>
            /\ dailies[i].lastCompleted # ZeroTime
            /\ dailies[i].lastCompleted <= now
            /\ getMostRecent3AM(dailies[i].lastCompleted) <= dailies[i].lastCompleted)
  /\ [][ \A i \in 1..Len(dailies) :
           (dailies[i].status # "DONE" /\ DailyAfter(dailies[i]).status = "DONE") =>
             /\ DailyAfter(dailies[i]).lastCompleted = now
             /\ getMostRecent3AM(now) <= DailyAfter(dailies[i]).lastCompleted
     ]_vars

\* C22 witness: a task has just been marked done at 02:59 of the second
\* day.
C22_Witness ==
  /\ statusMsg = "marked DONE"
  /\ now = DailyStart + DayLen
  /\ \E i \in 1..Len(dailies) :
       /\ dailies[i].status = "DONE"
       /\ dailies[i].lastCompleted = now

\* C23: the completion toggle flips the status of the task under the
\* cursor between incomplete and done, records now as the completion time
\* when the task becomes done and clears it when the task becomes
\* incomplete, leaves every other task alone, and a second toggle gives the
\* original status back.
C23_ToggleFlips ==
  [][ KeySpace =>
        LET d == dailies[cursor[0] + 1]
        IN /\ d.status = "INCOMPLETE" =>
                /\ DailyAfter(d).status = "DONE"
                /\ DailyAfter(d).lastCompleted = now
           /\ d.status = "DONE" =>
                /\ DailyAfter(d).status = "INCOMPLETE"
                /\ DailyAfter(d).lastCompleted = ZeroTime
           /\ toggleDaily(DailyAfter(d), now).status = d.status
           /\ dailies'[cursor'[0] + 1].id = d.id
           /\ \A i \in 1..Len(dailies) :
                dailies[i].id # d.id => DailyAfter(dailies[i]) = dailies[i]
    ]_vars

\* C23 witness: a task has just been marked incomplete by the toggle, its
\* completion time cleared.
C23_Witness ==
  /\ statusMsg = "marked INCOMPLETE"
  /\ cursor[0] < Len(dailies)
  /\ dailies[cursor[0] + 1].status = "INCOMPLETE"
  /\ dailies[cursor[0] + 1].lastCompleted = ZeroTime

\* The reminders that are due when a tick starts, as the claim reads due:
\* active, not notified, the target reached.
DueAtStart ==
  {i \in 1..Len(reminders) :
     /\ reminders[i].status = "active"
     /\ ~reminders[i].notified
     /\ reminders[i].targetTime # ZeroTime
     /\ now >= reminders[i].targetTime}

\* C24 (as claimed): a tick visits every reminder in one pass: every
\* reminder due when the tick starts is expired after it, and each of them
\* has produced exactly one notification in that tick, however many are due
\* at once.
C24_SinglePassAllDue ==
  [][ Tick =>
        /\ \A i \in DueAtStart :
             /\ AfterOf(reminders[i]).status = "expired"
             /\ AfterOf(reminders[i]).notified
             /\ Occurrences(emitted', reminders[i].reminder) =
                  Cardinality({j \in DueAtStart :
                                 reminders[j].reminder = reminders[i].reminder})
        /\ Len(emitted') = Cardinality(DueAtStart)
    ]_vars

\* The ids of the reminders and of the daily tasks.
ReminderIds(rs) == {rs[i].id : i \in 1..Len(rs)}

DailyIds(ds) == {ds[i].id : i \in 1..Len(ds)}

\* A step expires a reminder: one that is expired after the step was there
\* before it with another status, or was not there.
SomeReminderExpires ==
  \E i \in 1..Len(reminders') :
    /\ reminders'[i].status = "expired"
    /\ \A j \in 1..Len(reminders) :
         reminders[j].id = reminders'[i].id => reminders[j].status # "expired"

\* A step turns a done task back to incomplete.
SomeDailyReopens ==
  \E i \in 1..Len(dailies) :
    /\ dailies[i].status = "DONE"
    /\ dailies[i].id \in DailyIds(dailies')
    /\ DailyAfter(dailies[i]).status = "INCOMPLETE"

\* C25: the tick is the sole driver of time-based state change. Whatever the
\* user does (tabs, start, pause, reset, add, edit, save, cancel, delete,
\* confirm) and however much time passes, a step that sets a reminder's
\* status to expired is a tick, and a step that turns a done task back to
\* incomplete is a tick (the reset evaluation) or the user's own toggle of
\* that task.
C25_TickSoleDriver ==
  [][ /\ SomeReminderExpires => Tick
      /\ SomeDailyReopens => (Tick \/ KeySpace)
      /\ AdvanceApp => (reminders' = reminders /\ dailies' = dailies)
    ]_vars

\* C25 witness: a tick at 03:00 or later has just expired a reminder, and a
\* task is incomplete.
C25_Witness ==
  /\ emitted # <<>>
  /\ \E i \in 1..Len(reminders) : reminders[i].status = "expired"
  /\ \E i \in 1..Len(dailies) : dailies[i].status = "INCOMPLETE"
  /\ now >= AppStart + 2

\* C26: each tick schedules exactly the next tick. With Init's tick armed
\* there is exactly one pending tick in every state, a handled tick consumes
\* it and arms one, no key or status event changes the number of pending
\* ticks, and a tick can be handled in every state of a running program, in
\* editing and in delete-confirmation mode too.
C26_OnePendingTick ==
  /\ [](ticksArmed = 1)
  /\ [](~panicked => ENABLED Tick)
  /\ [][Tick => ticksArmed' = (ticksArmed - 1) + 1]_vars
  /\ [][~Tick => ticksArmed' = ticksArmed]_vars

\* C26 witness: a tick handled in delete-confirmation mode has just expired
\* a reminder, and the next tick is pending.
C26_Witness ==
  /\ confirmDelete
  /\ emitted # <<>>
  /\ ticksArmed = 1

\* C30: delete requires confirmation. The key d removes nothing: it leaves
\* every collection as it is and only records the confirmation and the name
\* under the cursor; a step after which an item is gone is the key y pressed
\* while the confirmation is pending; and the key n ends the confirmation
\* and leaves every collection unchanged.
C30_DeleteNeedsConfirmation ==
  [][ /\ KeyDelete =>
           /\ reminders' = reminders /\ dailies' = dailies
           /\ confirmDelete' = (selectedName # <<>>)
           /\ confirmDelete' => deleteTarget' = selectedName
      /\ ( \/ ~(ReminderIds(reminders) \subseteq ReminderIds(reminders'))
           \/ ~(DailyIds(dailies) \subseteq DailyIds(dailies'))
           \/ Len(reminders') < Len(reminders)
           \/ Len(dailies') < Len(dailies) ) => (KeyYes /\ confirmDelete)
      /\ KeyNo =>
           /\ ~confirmDelete'
           /\ reminders' = reminders /\ dailies' = dailies
    ]_vars

\* C30 witness: a confirmed delete has just removed the only daily task.
C30_Witness ==
  /\ statusMsg = "deleted"
  /\ ~confirmDelete
  /\ dailies = <<>>
  /\ activeTab = 2

\* The reminder state that a re-parse decides.
ParsedState(r) ==
  <<r.targetTime, r.isCountdown, r.status, r.notified, r.pausedRemaining>>

\* C29: on load, a stored reminder whose targetTime is unset and whose spec
\* is non-empty comes out of loadData, at the load-time now, in the state
\* (targetTime, isCountdown, status, notified, pausedRemaining) that a reset
\* of the same reminder at the same now produces.
C29_LoadLikeReset ==
  \A r \in FileReminders :
    (r.targetTime = ZeroTime /\ r.spec # <<>>) =>
      ParsedState(loadReminder(r, now)) = ParsedState(resetReminder(r, now).r)

\* C27: the side effects of an expiry are fire-and-forget. The tick handler
\* completes in the step in which it is delivered: it never waits in a
\* sendNotification call, and it hands back the next tick, whatever the
\* notification command does and whether or not it ever finishes.
C27_FireAndForget ==
  [][TickBegin => (waiting' = 0 /\ ticksArmed' = ticksArmed)]_vars

\* A step in which the pass calls sendNotification for a row.
DispatchStep == waiting' # 0 /\ waiting' # waiting

\* C28: a failed notification dispatch neither aborts the tick nor alters
\* reminder state. When sendNotification returns, with or without an error,
\* the reminder it was called for is expired and notified and stays so; the
\* pass goes on: every later row that is due is still reached, expired and
\* notified, and with none left the handler ends normally and arms the next
\* tick; and sendNotification is only ever called for a reminder that was
\* active and not yet notified, so a dispatch that failed is not repeated on
\* a later tick.
C28_FailedDispatchHarmless ==
  [][ /\ \A ok \in BOOLEAN :
           NotifyReturn(ok) =>
             /\ AfterOf(reminders[waiting]).status = "expired"
             /\ AfterOf(reminders[waiting]).notified
             /\ ~panicked'
             /\ waiting' = firstDue(reminders, waiting + 1, now)
             /\ waiting' # 0 =>
                  /\ reminders'[waiting'].status = "expired"
                  /\ reminders'[waiting'].notified
                  /\ emitted' = Append(emitted, reminders[waiting'].reminder)
             /\ waiting' = 0 =>
                  /\ ticksArmed' = ticksArmed + 1
                  /\ emitted' = emitted
                  /\ \A i \in 1..Len(reminders) :
                       AfterOf(reminders[i]) = reminders[i]
      /\ DispatchStep =>
           /\ ~reminders[waiting'].notified
           /\ reminders[waiting'].status = "active"
      /\ \A i \in 1..Len(reminders) :
           (reminders[i].notified /\ (TickBegin \/ \E ok \in BOOLEAN : NotifyReturn(ok)))
             => AfterOf(reminders[i]) = reminders[i]
    ]_vars

\* C28 witness: a pass is over in which the first of two dispatches failed
\* and the second was still made; both reminders are expired and notified
\* and the next tick is armed.
C28_Witness ==
  /\ waiting = 0
  /\ ticksArmed = 1
  /\ Len(dispatch) = 2
  /\ ~dispatch[1]
  /\ Len(emitted) = 2
  /\ Len(reminders) = 2
  /\ \A i \in 1..Len(reminders) :
       reminders[i].status = "expired" /\ reminders[i].notified

\* C32: the item a confirmed delete removes is the item the prompt named.
\* Whenever the key y removes a reminder or a daily task, the name of the
\* removed item is deleteTarget, the name recorded when d was pressed,
\* whatever cursor moves, tab switches and ticks came in between. No item
\* is renamed in between, so a different name is a different item.
C32_DeletesShownItem ==
  [][ KeyYes =>
        /\ Len(reminders') < Len(reminders) =>
             reminders[cursor[2] + 1].reminder = deleteTarget
        /\ Len(dailies') < Len(dailies) =>
             dailies[cursor[0] + 1].task = deleteTarget
    ]_vars

\* C34: no sequence of key events and ticks makes the program index outside
\* its tables or collections: the program never panics.
C34_NoIndexOutOfRange == ~panicked

\* The reminder in row editingRow is the one the open form was filled from.
FormRowUnmoved ==
  /\ editingRow < Len(reminders)
  /\ reminders[editingRow + 1].reminder = inputs.reminder
  /\ reminders[editingRow + 1].note = inputs.note
  /\ reminders[editingRow + 1].spec = inputs.spec

\* C33: saving an edit writes to the reminder that was under the cursor when
\* editing started. When enter is pressed in a form opened on an existing
\* reminder, the row saveEdit writes to still holds the reminder the form
\* was filled from, also when ticks have re-sorted the reminders in between.
C33_SaveWritesEditedReminder ==
  [][(AnyEditEnter /\ editingRow >= 0) => FormRowUnmoved]_vars

\* The timing state of a reminder.
TimingState(r) == <<r.status, r.targetTime, r.notified, r.pausedRemaining>>

\* C36: editing a reminder without changing its spec string leaves its
\* timing state unchanged: after a save that keeps the spec field as the
\* form showed it, the edited reminder has the status, targetTime, notified
\* and pausedRemaining it had before the save.
C36_EditTextKeepsTiming ==
  [][ \A text \in TextInputs \cup {Keep} :
        (EditEnter(text, Keep) /\ editingRow >= 0) =>
          TimingState(AfterOf(reminders[editingRow + 1])) =
            TimingState(reminders[editingRow + 1])
    ]_vars

\* C35: in every state reached from an empty store by add, edit, start,
\* pause, reset, tick and delete, a reminder has notified = true if and only
\* if its status is expired.
C35_NotifiedIffExpired ==
  \A i \in 1..Len(reminders) :
    reminders[i].notified <=> (reminders[i].status = "expired")

\* C38: record identities are unique within a collection: no two reminders
\* have the same ID, whatever adds and deletes came before.
C38_UniqueIds ==
  \A i, j \in 1..Len(reminders) :
    i # j => reminders[i].id # reminders[j].id

\* C35 witness: one reminder has been expired by a tick and is notified,
\* another one is paused and not notified.
C35_Witness ==
  /\ \E i \in 1..Len(reminders) :
       reminders[i].status = "expired" /\ reminders[i].notified
  /\ \E i \in 1..Len(reminders) :
       reminders[i].status = "paused" /\ ~reminders[i].notified

\* The targets a countdown set during the run can have.
LiveTargets == (StartNow + 1)..(StartNow + MaxElapsed)

\* The reminder is active with the resolved target t.
ActiveWith(t) ==
  /\ ~panicked
  /\ \E i \in 1..Len(reminders) :
       reminders[i].status = "active" /\ reminders[i].targetTime = t

\* C37: under fair ticking, a reminder that is active with a resolved
\* targetTime does not stay so for ever: it is expired by a tick, which sends
\* its notification, unless the user pauses, resets, edits or deletes it
\* first; and a tick leaves a paused reminder exactly as it is, however far
\* the clock is past its target.
C37_ActiveEventuallyExpires ==
  /\ \A t \in LiveTargets : ActiveWith(t) ~> ~ActiveWith(t)
  /\ [][ \A t \in LiveTargets :
           (ActiveWith(t) /\ ~ActiveWith(t)' /\
              ~(KeyPause \/ KeyReset \/ AnyEditEnter \/ KeyYes \/ EditEnterPanic)) =>
             /\ Tick
             /\ \E i \in 1..Len(reminders) :
                  /\ reminders[i].status = "active"
                  /\ reminders[i].targetTime = t
                  /\ now > t
                  /\ AfterOf(reminders[i]).status = "expired"
                  /\ AfterOf(reminders[i]).notified
                  /\ Occurrences(emitted', reminders[i].reminder) = 1
       ]_vars
  /\ [][ Tick =>
           \A i \in 1..Len(reminders) :
             reminders[i].status = "paused" => AfterOf(reminders[i]) = reminders[i]
       ]_vars

\* C37 witness: the clock is past the target of a countdown, a tick has just
\* expired the reminder and sent its notification.
C37_Witness ==
  /\ Len(reminders) = 1
  /\ reminders[1].status = "expired"
  /\ reminders[1].notified
  /\ now > reminders[1].targetTime
  /\ emitted = <<reminders[1].reminder>>

\* C39: for every count n that the countdown grammar accepts, the duration
\* n * unit computed in int64 nanoseconds is the mathematical product: it
\* has not wrapped around, and in particular it is not negative, so the
\* target now + duration is not before now. Stated for the spec that the
\* open form holds when enter is pressed.
C39_NoWrapAround ==
  (/\ editing
   /\ inputs # Nil
   /\ Len(inputs.spec) > 1
   /\ UnitOf(inputs.spec) \in UnitLetters
   /\ Atoi64(CountOf(inputs.spec)).ok) =>
    /\ ~Negative64(Duration64(Atoi64(CountOf(inputs.spec)).val, UnitOf(inputs.spec)))
    /\ Widen(Duration64(Atoi64(CountOf(inputs.spec)).val, UnitOf(inputs.spec))) =
         DurationExact(Atoi64(CountOf(inputs.spec)).val, UnitOf(inputs.spec))

\* A step writes to a reminder or to a daily task.
WritesData == reminders' # reminders \/ dailies' # dailies

====
